---- MODULE Spec2Model ----
(***************************************************************************)
(* Routify: the point-optimisation and coverage-verification pipeline.     *)
(*                                                                         *)
(*   src/osm_utils.py  simplify_linestring, convert_gdf_to_single_point_   *)
(*                     list, select_highway_type, select_max_value,        *)
(*                     filter_data, merge_points_gdf_with_streets_edges    *)
(*   src/routing.py    get_osrm_trip                                       *)
(*   src/utils.py      calculate_trip                                      *)
(*   src/streamlit_app.py  the session state and the reruns of the app     *)
(*                                                                         *)
(* Conventions.  A Python Optional is a tuple: <<>> is None and <<x>> is   *)
(* the value x.  A coordinate is a pair of integers, (lon, lat) in a       *)
(* geometry and (lat, lon) in a point list.  A geometry is a record        *)
(* [type, coords]; a GeoDataFrame is a record [crs, rows].                 *)
(***************************************************************************)
EXTENDS Integers, Sequences, FiniteSets, TLC

VARIABLES
    call,        \* the pure function under test and its arguments
    out,         \* its outcome: pending, a returned value or a raised error
    pc,          \* where the calculate_trip call stands
    args,        \* the arguments of the calculate_trip call
    gdf,         \* calculate_trip's local frame of waypoints
    gdf_edges,   \* calculate_trip's local frame of road segments
    point_list,  \* the (lat, lon) list handed to the polyline encoder
    request,     \* the trip request sent to the routing service, if any
    reply,       \* what the routing service answered, if it did
    routes,      \* the outcome of get_osrm_trip
    ret,         \* the outcome of calculate_trip
    messages,    \* what calculate_trip reported through st.error/warning/success
    osrm_calls,  \* requests sent to the routing service
    osm_calls,   \* road-network acquisitions started
    session,     \* st.session_state of the app
    widgets      \* the values of the app's routing widgets

fnVars == <<call, out>>
tripVars == <<pc, args, gdf, gdf_edges, point_list, request, reply, routes, ret,
              messages, osrm_calls, osm_calls>>
uiVars == <<session, widgets>>
vars == <<call, out, pc, args, gdf, gdf_edges, point_list, request, reply, routes,
          ret, messages, osrm_calls, osm_calls, session, widgets>>

None == <<>>
Some(x) == <<x>>

Pending == [status |-> "pending"]
Returned(v) == [status |-> "returned", value |-> v]
Raised(e) == [status |-> "raised", error |-> e]

\* No calculate_trip call is under way (the functions are exercised alone).
NoTrip ==
    /\ pc = "idle"
    /\ args = None
    /\ gdf = None
    /\ gdf_edges = None
    /\ point_list = <<>>
    /\ request = None
    /\ reply = None
    /\ routes = Pending
    /\ ret = Pending
    /\ messages = <<>>
    /\ osrm_calls = 0
    /\ osm_calls = 0

\* The app is not running (calculate_trip is called directly).
NoSession ==
    /\ session = None
    /\ widgets = None

\* No function is exercised alone (a calculate_trip call is under way).
NoCall ==
    /\ call = None
    /\ out = Pending

\* ------------------------------------------------------------------ bounds
MaxLen == 4       \* points of a polyline
MaxK == 3         \* points_between
MaxRows == 2      \* rows of a frame of line geometries
MaxCand == 3      \* candidate values of a multi-valued attribute
MaxEdges == 2     \* rows of the edge frame given to filter_data
MaxPts == 2       \* waypoints of a points frame
MaxStreets == 2   \* road segments of a streets frame
MaxSteps == 2     \* steps of a leg of a trip in a reply of the routing service

\* ---------------------------------------------------------------- geometry
Grid == {<<0, 0>>, <<2, 0>>, <<1, 1>>}

LineString(c) == [type |-> "LineString", coords |-> c]
PointGeom(p) == [type |-> "Point", coords |-> <<p>>]

SeqsUpTo(S, lo, hi) == UNION {[1..n -> S] : n \in lo..hi}

Polylines == SeqsUpTo(Grid, 2, MaxLen)

RECURSIVE ISqrtFrom(_, _)
ISqrtFrom(n, r) == IF (r + 1) * (r + 1) > n THEN r ELSE ISqrtFrom(n, r + 1)
ISqrt(n) == ISqrtFrom(n, 0)

Max(a, b) == IF a >= b THEN a ELSE b
Min(a, b) == IF a <= b THEN a ELSE b

\* linestring.length: the planar length, here to the unit below (the model's
\* polylines are far shorter than 1000, where the only use of it changes).
RECURSIVE length(_)
length(coords) ==
    IF Len(coords) < 2 THEN 0
    ELSE LET a == coords[1]
             b == coords[2]
         IN  ISqrt((b[1] - a[1]) * (b[1] - a[1]) + (b[2] - a[2]) * (b[2] - a[2]))
             + length(Tail(coords))

\* ------------------------------------------------------ GeometrySimplifier
\* np.linspace(0, stop, num, dtype=int): num evenly spaced positions from 0
\* to stop, both ends included, each cut to an integer by the dtype cast.
\* The positions are computed exactly here; numpy's floating-point ones are
\* cut to the same integers for every stop and num the model reaches.
linspace_no_endpoint(stop, num) ==
    [i \in 1..num |-> ((i - 1) * stop) \div num]

\* The positions rounded to the nearest integer, a half upwards.
linspace_rounded(stop, num) ==
    [i \in 1..num |->
        IF num = 1 THEN 0
        ELSE (2 * (i - 1) * stop + (num - 1)) \div (2 * (num - 1))]

np_linspace(stop, num) ==
    [i \in 1..num |-> IF num = 1 THEN 0 ELSE ((i - 1) * stop) \div (num - 1)]

Select(coords, num_points) ==
    LET idx == np_linspace(Len(coords) - 1, num_points)
    IN  [i \in 1..num_points |-> coords[idx[i] + 1]]

simplify_no_identity(coords, points_between) ==
    IF points_between = None
    THEN Returned(Select(coords, Max(3, Min(20, (length(coords) \div 1000) + 2))))
    ELSE LET k == points_between[1]
         IN  IF k < -1 THEN Raised("ValueError")
             ELSE IF k <= 0 THEN Returned(<<coords[1], coords[Len(coords)]>>)
             ELSE Returned(Select(coords, k + 2))

simplify_linestring(coords, points_between) ==
    IF points_between = None
    THEN Returned(Select(coords, Max(3, Min(20, (length(coords) \div 1000) + 2))))
    ELSE LET k == points_between[1]
         IN  IF k < -1 THEN Raised("ValueError")
             ELSE IF k = -1 THEN Returned(coords)
             ELSE IF k = 0 THEN Returned(<<coords[1], coords[Len(coords)]>>)
             ELSE Returned(Select(coords, k + 2))

SwapPairs(s) == [i \in 1..Len(s) |-> <<s[i][2], s[i][1]>>]

\* The loop of convert_gdf_to_single_point_list over rows[i..]; a raise of
\* simplify_linestring ends it.
RECURSIVE convert_from(_, _, _, _)
convert_from(rows, i, points_between, all_points) ==
    IF i > Len(rows) THEN Returned(all_points)
    ELSE IF rows[i].geometry.type # "LineString"
         THEN convert_from(rows, i + 1, points_between, all_points)
         ELSE LET r == simplify_linestring(rows[i].geometry.coords, points_between)
              IN  IF r.status = "raised" THEN r
                  ELSE convert_from(rows, i + 1, points_between,
                                    all_points \o SwapPairs(r.value))

convert_gdf_to_single_point_list(rows, points_between) ==
    convert_from(rows, 1, points_between, <<>>)

PointsBetween == {None} \cup {Some(k) : k \in -2..MaxK}

SampleGeoms ==
    { LineString(<<(<<0, 0>>), (<<2, 0>>)>>),
      LineString(<<(<<2, 0>>), (<<1, 1>>), (<<0, 0>>)>>),
      LineString(<<(<<0, 0>>), (<<1, 1>>), (<<2, 0>>), (<<1, 1>>)>>),
      PointGeom(<<1, 1>>) }

SimplifyCalls ==
    [fn : {"simplify_linestring"}, coords : Polylines, points_between : PointsBetween]

ConvertCalls ==
    [fn : {"convert_gdf_to_single_point_list"},
     rows : SeqsUpTo({[geometry |-> g] : g \in SampleGeoms}, 0, MaxRows),
     points_between : PointsBetween]

InitSimplify ==
    /\ call \in SimplifyCalls \cup ConvertCalls
    /\ out = Pending
    /\ NoTrip
    /\ NoSession

SimplifyLinestring ==
    /\ call.fn = "simplify_linestring"
    /\ out = Pending
    /\ out' = simplify_linestring(call.coords, call.points_between)
    /\ UNCHANGED <<call, tripVars, uiVars>>

ConvertGdfToSinglePointList ==
    /\ call.fn = "convert_gdf_to_single_point_list"
    /\ out = Pending
    /\ out' = convert_gdf_to_single_point_list(call.rows, call.points_between)
    /\ UNCHANGED <<call, tripVars, uiVars>>

NextSimplify == SimplifyLinestring \/ ConvertGdfToSinglePointList

SpecSimplify == InitSimplify /\ [][NextSimplify]_vars

\* ------------------------------------------- properties of the simplifier
\* res is drawn from coords at non-decreasing indices: position i of res is
\* matched at the first index of coords, not before j, that holds its point.
RECURSIVE DrawnInOrder(_, _, _, _)
DrawnInOrder(res, coords, i, j) ==
    IF i > Len(res) THEN TRUE
    ELSE LET at == {m \in j..Len(coords) : coords[m] = res[i]}
         IN  /\ at # {}
             /\ DrawnInOrder(res, coords, i + 1,
                             CHOOSE m \in at : \A o \in at : m <= o)

SimplifyDone ==
    /\ call.fn = "simplify_linestring"
    /\ out # Pending

\* C6: for a polyline of length >= 2 and k >= 0, simplify_linestring returns
\* exactly k + 2 points, each a point of the polyline, at non-decreasing
\* indices, the first the polyline's first point and the last its last; for
\* k = 0 the result is [first, last]; also when k + 2 exceeds the length.
C6_SimplifyCountAndEnds ==
    (SimplifyDone /\ call.points_between # None /\ call.points_between[1] >= 0)
    => /\ out.status = "returned"
       /\ Len(out.value) = call.points_between[1] + 2
       /\ out.value[1] = call.coords[1]
       /\ out.value[Len(out.value)] = call.coords[Len(call.coords)]
       /\ DrawnInOrder(out.value, call.coords, 1, 1)
       /\ (call.points_between[1] = 0
           => out.value = <<call.coords[1], call.coords[Len(call.coords)]>>)

\* C6 witness: more points asked for (k + 2 = 5) than the polyline has (2).
C6_Witness ==
    /\ SimplifyDone
    /\ call.points_between = Some(3)
    /\ Len(call.coords) = 2
    /\ call.coords[1] # call.coords[2]
    /\ out.status = "returned"
    /\ Len(out.value) = 5

RECURSIVE AllPointsLatLon(_)
AllPointsLatLon(rows) ==
    IF rows = <<>> THEN <<>>
    ELSE (IF Head(rows).geometry.type = "LineString"
          THEN SwapPairs(Head(rows).geometry.coords) ELSE <<>>)
         \o AllPointsLatLon(Tail(rows))

\* C7: simplify_linestring(polyline, -1) returns the input point sequence
\* itself, and convert_gdf_to_single_point_list, called with -1 as the
\* waypoint reducer calls it, emits every point of every line row, in row
\* order, as (lat, lon) pairs.
C7_SimplifyIdentity ==
    /\ (SimplifyDone /\ call.points_between = Some(-1))
       => out = Returned(call.coords)
    /\ (/\ call.fn = "convert_gdf_to_single_point_list"
        /\ out # Pending
        /\ call.points_between = Some(-1))
       => out = Returned(AllPointsLatLon(call.rows))

\* C7 witness: a polyline of four points with a repeated point comes back
\* whole, where the default policy would have returned three.
C7_Witness ==
    /\ SimplifyDone
    /\ call.points_between = Some(-1)
    /\ Len(call.coords) = 4
    /\ call.coords[2] = call.coords[4]
    /\ out = Returned(call.coords)

\* ===================================================== StreetNetworkFilter
\* An attribute value of an edge row.  A Python str is Str(v); a list of
\* str is List(<<v1, ...>>); str(a_list), the text of a list, is Repr of the
\* list's items; a number is Num(n); a missing value is NaN.  (A str holds
\* its text as the one item of v.)  A road class
\* is written as a TLA+ string and a speed as its sequence of characters,
\* so that parsing it is a computation.
Str(v) == [kind |-> "str", v |-> <<v>>]
List(items) == [kind |-> "list", v |-> items]
Repr(items) == [kind |-> "repr", v |-> items]
Num(n) == [kind |-> "num", n |-> n]
Text(value) == value.v[1]
NaN == [kind |-> "nan"]

highway_priority ==
    << "motorway", "trunk", "primary", "secondary", "tertiary",
       "unclassified", "residential", "living_street", "road",
       "motorway_link", "trunk_link", "primary_link", "secondary_link",
       "tertiary_link", "rest_area", "crossing" >>

Ranked == {highway_priority[i] : i \in 1..Len(highway_priority)}

\* The first item of the list that the ranking knows, in the list's order.
first_listed_candidate(street_type) ==
    IF street_type.kind = "list"
       /\ \E j \in 1..Len(street_type.v) : street_type.v[j] \in Ranked
    THEN LET j == CHOOSE j \in 1..Len(street_type.v) :
                      /\ street_type.v[j] \in Ranked
                      /\ \A m \in 1..(j - 1) : street_type.v[m] \notin Ranked
         IN  Str(street_type.v[j])
    ELSE street_type

\* for highway in highway_priority: if highway in street_type: return highway
\* and, when the loop ends without a return, return street_type.
select_highway_type(street_type) ==
    LET present(i) == \E j \in 1..Len(street_type.v) :
                          street_type.v[j] = highway_priority[i]
    IN  IF street_type.kind = "list"
           /\ \E i \in 1..Len(highway_priority) : present(i)
        THEN LET i == CHOOSE i \in 1..Len(highway_priority) :
                          /\ present(i)
                          /\ \A m \in 1..(i - 1) : ~present(m)
             IN  Str(highway_priority[i])
        ELSE street_type

\* ---- text and numbers
Alphabet ==
    << " ", "0", "1", "2", "3", "4", "5", "6", "7", "8", "9",
       "e", "h", "m", "n", "o", "p" >>

Ord(c) == CHOOSE i \in 1..Len(Alphabet) : Alphabet[i] = c

IsDigit(c) == Ord(c) \in 2..11

\* float(x) of a text of the model: the decimal value of an all-digit text,
\* and a ValueError (here: no value) for a text with any other character.
IsNumeric(x) == Len(x) > 0 /\ \A i \in 1..Len(x) : IsDigit(x[i])

RECURSIVE float(_)
float(x) ==
    IF x = <<>> THEN 0
    ELSE 10 * float(SubSeq(x, 1, Len(x) - 1)) + (Ord(x[Len(x)]) - 2)

\* a < b as Python compares two str: character by character, then by length.
RECURSIVE TextLess(_, _)
TextLess(a, b) ==
    IF b = <<>> THEN FALSE
    ELSE IF a = <<>> THEN TRUE
    ELSE IF Ord(Head(a)) # Ord(Head(b)) THEN Ord(Head(a)) < Ord(Head(b))
    ELSE TextLess(Tail(a), Tail(b))

FloatLess(a, b) == float(a) < float(b)

\* max(items, key=...): the first item that no later item exceeds, items
\* compared by their float when by_float and as text otherwise.
RECURSIVE MaxBy(_, _, _, _)
MaxBy(items, i, best, by_float) ==
    IF i > Len(items) THEN best
    ELSE LET less == IF by_float THEN FloatLess(best, items[i])
                     ELSE TextLess(best, items[i])
         IN  MaxBy(items, i + 1, IF less THEN items[i] ELSE best, by_float)

\* max(value) with no key: the greatest text.
select_max_text(value) ==
    IF value.kind = "list"
    THEN Returned(Str(MaxBy(value.v, 2, value.v[1], FALSE)))
    ELSE Returned(value)

\* max(value, key=lambda x: float(x)) for a list, the value itself otherwise;
\* float raises ValueError on the first item that is no number.
select_max_value(value) ==
    IF value.kind = "list"
    THEN IF \E i \in 1..Len(value.v) : ~IsNumeric(value.v[i])
         THEN Raised("ValueError")
         ELSE Returned(Str(MaxBy(value.v, 2, value.v[1], TRUE)))
    ELSE Returned(value)

\* pd.to_numeric of one value of the column.
to_numeric(value) ==
    IF value.kind = "str"
    THEN IF IsNumeric(Text(value)) THEN Returned(Num(float(Text(value))))
         ELSE Raised("ValueError")
    ELSE Returned(value)

\* x -> str(x) if isinstance(x, list) else x
stringify_list(value) == IF value.kind = "list" THEN Repr(value.v) ELSE value

\* filter_data on the rows of the edge frame: the highway column, then the
\* maxspeed column (either step of which may raise), then every column that
\* still holds a list.
filter_data(rows) ==
    LET n == Len(rows)
        hw == [i \in 1..n |-> select_highway_type(rows[i].highway)]
        mx == [i \in 1..n |-> select_max_value(rows[i].maxspeed)]
        nm == [i \in 1..n |-> IF mx[i].status = "returned"
                              THEN to_numeric(mx[i].value) ELSE mx[i]]
    IN  IF \E i \in 1..n : nm[i].status = "raised"
        THEN Raised("ValueError")
        ELSE Returned([i \in 1..n |->
                 [rows[i] EXCEPT !.highway = stringify_list(hw[i]),
                                 !.maxspeed = stringify_list(nm[i].value),
                                 !.name = stringify_list(rows[i].name)]])

\* ---- the inputs of the filter
HighwayValues ==
    {"motorway", "unclassified", "residential", "motorway_link", "service", "footway"}

T20 == <<"2", "0">>
T30 == <<"3", "0">>
T50 == <<"5", "0">>
T100 == <<"1", "0", "0">>
T30mph == <<"3", "0", " ", "m", "p", "h">>
Tnone == <<"n", "o", "n", "e">>

SpeedTexts == {T20, T30, T50, T100, T30mph, Tnone}

FieldsOf(values) ==
    {Str(v) : v \in values} \cup {List(l) : l \in SeqsUpTo(values, 2, MaxCand)}

EdgeRows ==
    [highway : {Str("residential"),
                List(<<"residential", "motorway", "unclassified">>),
                List(<<"service", "residential">>),
                List(<<"service", "footway">>)},
     maxspeed : {NaN, Str(T50), Str(Tnone), List(<<T30, T50, T20>>),
                 List(<<T100, T50>>), List(<<T50, T30mph>>)},
     name : {Str("Via Roma"), List(<<"Via Roma", "Rampa">>)}]

FilterCalls ==
    [fn : {"select_highway_type"}, street_type : FieldsOf(HighwayValues)]
    \cup [fn : {"select_max_value"}, value : FieldsOf(SpeedTexts) \cup {NaN}]
    \cup [fn : {"filter_data"}, rows : SeqsUpTo(EdgeRows, 1, MaxEdges)]

InitFilter ==
    /\ call \in FilterCalls
    /\ out = Pending
    /\ NoTrip
    /\ NoSession

SelectHighwayType ==
    /\ call.fn = "select_highway_type"
    /\ out = Pending
    /\ out' = Returned(select_highway_type(call.street_type))
    /\ UNCHANGED <<call, tripVars, uiVars>>

SelectMaxValue ==
    /\ call.fn = "select_max_value"
    /\ out = Pending
    /\ out' = select_max_value(call.value)
    /\ UNCHANGED <<call, tripVars, uiVars>>

FilterData ==
    /\ call.fn = "filter_data"
    /\ out = Pending
    /\ out' = filter_data(call.rows)
    /\ UNCHANGED <<call, tripVars, uiVars>>

NextFilter == SelectHighwayType \/ SelectMaxValue \/ FilterData

SpecFilter == InitFilter /\ [][NextFilter]_vars

\* ------------------------------------------------ properties of the filter
Rank(h) == CHOOSE i \in 1..Len(highway_priority) : highway_priority[i] = h

Items(field) == {field.v[j] : j \in 1..Len(field.v)}

LinkClasses ==
    {"motorway_link", "trunk_link", "primary_link", "secondary_link", "tertiary_link"}

\* C8: for a multi-valued road class with a ranked candidate, the result of
\* select_highway_type is the ranked candidate of least rank, whatever the
\* order of the candidates; motorway ranks above residential and residential
\* above the link classes (and is chosen over an unranked class such as
\* service); a scalar road class is returned unchanged.
C8_HighestPriorityPresent ==
    /\ Rank("motorway") < Rank("residential")
    /\ \A l \in LinkClasses : Rank("residential") < Rank(l)
    /\ (call.fn = "select_highway_type" /\ out # Pending)
       => LET st == call.street_type
          IN  IF st.kind = "list"
              THEN (Items(st) \cap Ranked # {})
                   => /\ out.value.kind = "str"
                      /\ Text(out.value) \in Items(st) \cap Ranked
                      /\ \A c \in Items(st) \cap Ranked :
                             Rank(Text(out.value)) <= Rank(c)
              ELSE out = Returned(st)

\* C8 witness: [residential, motorway, unclassified] gives motorway, which
\* is not the first candidate listed.
C8_Witness ==
    /\ call.fn = "select_highway_type"
    /\ call.street_type = List(<<"residential", "motorway", "unclassified">>)
    /\ out = Returned(Str("motorway"))

\* C9: after filter_data the road class of every edge is one scalar that is
\* one of the candidate values the edge arrived with, for every multi-valued
\* input, also one with no candidate in the ranking.
C9_RoadClassIsACandidate ==
    (call.fn = "filter_data" /\ out.status = "returned")
    => \A i \in 1..Len(call.rows) :
           LET given == call.rows[i].highway
               got == out.value[i].highway
           IN  /\ got.kind = "str"
               /\ IF given.kind = "list" THEN Text(got) \in Items(given)
                  ELSE got = given

AllNumeric(field) == \A c \in Items(field) : IsNumeric(c)

\* The row's speed cannot be parsed: a candidate, or the scalar, is no number.
BadSpeed(field) ==
    \/ field.kind = "list" /\ ~AllNumeric(field)
    \/ field.kind = "str" /\ ~IsNumeric(Text(field))

\* C10: for a multi-valued speed limit select_max_value returns the candidate
\* of greatest numeric value and filter_data leaves that value as a number;
\* after filter_data every speed is numeric; a candidate that is no number
\* gives a ValueError and no value.
C10_GreatestNumericSpeed ==
    /\ (call.fn = "select_max_value" /\ out # Pending /\ call.value.kind = "list")
       => IF AllNumeric(call.value)
          THEN /\ out.status = "returned"
               /\ out.value.kind = "str"
               /\ Text(out.value) \in Items(call.value)
               /\ \A c \in Items(call.value) : float(c) <= float(Text(out.value))
          ELSE out = Raised("ValueError")
    /\ (call.fn = "filter_data" /\ out # Pending)
       => IF \E i \in 1..Len(call.rows) : BadSpeed(call.rows[i].maxspeed)
          THEN out = Raised("ValueError")
          ELSE /\ out.status = "returned"
               /\ \A i \in 1..Len(call.rows) :
                      LET given == call.rows[i].maxspeed
                          got == out.value[i].maxspeed
                      IN  /\ got.kind \in {"num", "nan"}
                          /\ given.kind = "list"
                             => /\ got.kind = "num"
                                /\ got.n \in {float(c) : c \in Items(given)}
                                /\ \A c \in Items(given) : float(c) <= got.n

\* C10 witness: ["100", "50"] gives the number 100, where the greatest text
\* is "50".
C10_Witness ==
    /\ call.fn = "filter_data"
    /\ call.rows[1].maxspeed = List(<<T100, T50>>)
    /\ out.status = "returned"
    /\ out.value[1].maxspeed = Num(100)

\* =========================================================== NearestJoiner
\* A frame is [crs, rows]; a row has its index label idx, its geometry and
\* its attributes.  A projection is modelled as the scaling of every
\* coordinate by a factor proper to the frame, so that a distance, and with
\* it the effect of a threshold, depends on the frame it is measured in.
NoCrs == "None"

CrsScale(crs) ==
    CASE crs = "EPSG:4326" -> 1
      [] crs = "EPSG:32632" -> 5
      [] crs = "EPSG:3857" -> 7

ScaleGeom(g, to, from) ==
    [g EXCEPT !.coords =
        [i \in 1..Len(g.coords) |->
            << (g.coords[i][1] * CrsScale(to)) \div CrsScale(from),
               (g.coords[i][2] * CrsScale(to)) \div CrsScale(from) >>]]

\* GeoDataFrame.to_crs: every geometry re-expressed in the frame crs.
to_crs(frame, crs) ==
    [crs |-> crs,
     rows |-> [i \in 1..Len(frame.rows) |->
                 [frame.rows[i] EXCEPT !.geometry = ScaleGeom(@, crs, frame.crs)]]]

\* ---- distances, as exact fractions <<numerator, denominator>> of squares
Dot(u, v) == u[1] * v[1] + u[2] * v[2]
Minus(u, v) == <<u[1] - v[1], u[2] - v[2]>>
CrossZ(u, v) == u[1] * v[2] - u[2] * v[1]

RatLeq(x, y) == x[1] * y[2] <= y[1] * x[2]

\* The squared distance of point p to the segment from a to b.
PointSegmentDist2(p, a, b) ==
    LET d == Minus(b, a)
        w == Minus(p, a)
        t == Dot(w, d)
    IN  IF Dot(d, d) = 0 \/ t <= 0 THEN <<Dot(w, w), 1>>
        ELSE IF t >= Dot(d, d) THEN <<Dot(Minus(p, b), Minus(p, b)), 1>>
        ELSE <<CrossZ(d, w) * CrossZ(d, w), Dot(d, d)>>

PointLineDist2(p, coords) ==
    LET ds == {PointSegmentDist2(p, coords[i], coords[i + 1]) : i \in 1..(Len(coords) - 1)}
    IN  CHOOSE x \in ds : \A y \in ds : RatLeq(x, y)

\* The squared distance of two geometries one of which is a point.
Dist2(g, h) ==
    IF g.type = "Point" /\ h.type = "Point"
    THEN <<Dot(Minus(g.coords[1], h.coords[1]), Minus(g.coords[1], h.coords[1])), 1>>
    ELSE IF g.type = "Point" THEN PointLineDist2(g.coords[1], h.coords)
    ELSE PointLineDist2(h.coords[1], g.coords)

WithinMax(d2, max_distance) ==
    \/ max_distance = None
    \/ d2[1] <= max_distance[1] * max_distance[1] * d2[2]

RECURSIVE Ascending(_)
Ascending(S) ==
    IF S = {} THEN <<>>
    ELSE LET m == CHOOSE m \in S : \A o \in S : m <= o
         IN  <<m>> \o Ascending(S \ {m})

\* The right rows nearest to left row i: those at the least distance, when
\* that distance is within max_distance.
NearestOf(left, right, i, max_distance) ==
    {j \in 1..Len(right) :
        /\ WithinMax(Dist2(left[i].geometry, right[j].geometry), max_distance)
        /\ \A o \in 1..Len(right) :
               RatLeq(Dist2(left[i].geometry, right[j].geometry),
                      Dist2(left[i].geometry, right[o].geometry))}

Joined(row, index_right) == [index_right |-> index_right] @@ row

\* gpd.sjoin_nearest(left, right, how, max_distance): the rows of left in
\* order, each with the index of its nearest right row, one row for each
\* when several are equally near; a left row with none within max_distance
\* is dropped (inner) or kept with a null index_right (left).
RECURSIVE sjoin_from(_, _, _, _, _)
sjoin_from(left, right, how, max_distance, i) ==
    IF i > Len(left) THEN <<>>
    ELSE LET near == Ascending(NearestOf(left, right, i, max_distance))
             here == IF near # <<>>
                     THEN [n \in 1..Len(near) |->
                              Joined(left[i], Some(right[near[n]].idx))]
                     ELSE IF how = "left" THEN <<Joined(left[i], None)>>
                     ELSE <<>>
         IN  here \o sjoin_from(left, right, how, max_distance, i + 1)

\* The same join with no regard for max_distance.
sjoin_uncapped(left, right, how, max_distance) ==
    [crs |-> left.crs,
     rows |-> sjoin_from(left.rows, right.rows, how, None, 1)]

sjoin_nearest(left, right, how, max_distance) ==
    [crs |-> left.crs,
     rows |-> sjoin_from(left.rows, right.rows, how, max_distance, 1)]

\* The same join with the frames taken the other way round: one row for
\* each point, with the index of its nearest street.
merge_per_point(points_gdf, streets_gdf, how, max_distance) ==
    LET points == to_crs(points_gdf, "EPSG:32632")
        streets == to_crs(streets_gdf, "EPSG:32632")
    IN  [points_gdf |-> points,
         streets_gdf |-> streets,
         spatial_gdf |-> to_crs(sjoin_nearest(points, streets, how, max_distance),
                                "EPSG:4326")]

\* merge_points_gdf_with_streets_edges with the default join_crs and
\* output_crs: both arguments are reprojected in place, which the caller
\* sees (points_gdf, streets_gdf), and the streets are joined to the points.
merge_points_gdf_with_streets_edges(points_gdf, streets_gdf, how, max_distance) ==
    LET points == to_crs(points_gdf, "EPSG:32632")
        streets == to_crs(streets_gdf, "EPSG:32632")
    IN  [points_gdf |-> points,
         streets_gdf |-> streets,
         spatial_gdf |-> to_crs(sjoin_nearest(streets, points, how, max_distance),
                                "EPSG:4326")]

\* ---- the inputs of the join
WayGrid == {<<1, 0>>, <<1, 1>>, <<1, 3>>, <<3, 1>>}

StreetLines ==
    { <<(<<0, 0>>), (<<2, 0>>)>>,
      <<(<<0, 2>>), (<<2, 2>>)>>,
      <<(<<0, 0>>), (<<2, 1>>), (<<2, 2>>)>> }

PointsFrame(ps) ==
    [crs |-> "EPSG:4326",
     rows |-> [i \in 1..Len(ps) |-> [idx |-> i - 1, geometry |-> PointGeom(ps[i])]]]

StreetsFrame(ls) ==
    [crs |-> "EPSG:4326",
     rows |-> [i \in 1..Len(ls) |->
                 [idx |-> i - 1, geometry |-> LineString(ls[i]),
                  highway |-> Str("residential")]]]

Thresholds == {None, Some(1), Some(10)}

JoinCalls ==
    [fn : {"merge_points_gdf_with_streets_edges"},
     points_gdf : {PointsFrame(ps) : ps \in SeqsUpTo(WayGrid, 1, MaxPts)},
     streets_gdf : {StreetsFrame(ls) : ls \in SeqsUpTo(StreetLines, 1, MaxStreets)},
     how : {"inner", "left"},
     max_distance : Thresholds]

InitJoin ==
    /\ call \in JoinCalls
    /\ out = Pending
    /\ NoTrip
    /\ NoSession

MergePointsGdfWithStreetsEdges ==
    /\ call.fn = "merge_points_gdf_with_streets_edges"
    /\ out = Pending
    /\ out' = Returned(merge_points_gdf_with_streets_edges(
                  call.points_gdf, call.streets_gdf, call.how, call.max_distance))
    /\ UNCHANGED <<call, tripVars, uiVars>>

NextJoin == MergePointsGdfWithStreetsEdges

SpecJoin == InitJoin /\ [][NextJoin]_vars

\* -------------------------------------------------- properties of the join
MergeDone ==
    /\ call.fn = "merge_points_gdf_with_streets_edges"
    /\ out # Pending

\* The squared distance, in the join frame, of street i and point j of the
\* call (both counted from 1).
JoinDist2(i, j) ==
    Dist2(ScaleGeom(call.streets_gdf.rows[i].geometry, "EPSG:32632", "EPSG:4326"),
          ScaleGeom(call.points_gdf.rows[j].geometry, "EPSG:32632", "EPSG:4326"))

StreetIds == 1..Len(call.streets_gdf.rows)
PointIds == 1..Len(call.points_gdf.rows)

InReach(i, j) == WithinMax(JoinDist2(i, j), call.max_distance)

\* The points nearest to street i, and the streets nearest to point j.
NearestPoints(i) == {j \in PointIds : \A o \in PointIds : RatLeq(JoinDist2(i, j), JoinDist2(i, o))}
NearestStreets(j) == {i \in StreetIds : \A o \in StreetIds : RatLeq(JoinDist2(i, j), JoinDist2(o, j))}

ResultRows == out.value.spatial_gdf.rows

\* The rows of the result that stand for street i, and those that name point j.
RowsOfStreet(i) ==
    {r \in 1..Len(ResultRows) :
        /\ ResultRows[r].idx = i - 1
        /\ ResultRows[r].geometry = call.streets_gdf.rows[i].geometry}
RowsOfPoint(j) == {r \in 1..Len(ResultRows) : ResultRows[r].index_right = Some(j - 1)}

\* C5 as stated: the join decides per point.  A point is matched to its
\* single nearest line iff that distance does not exceed max_distance; inner
\* keeps exactly the matched points, left keeps every point, the unmatched
\* ones with a null match.
C5_JoinPerPoint ==
    MergeDone
    => \A j \in PointIds :
           IF \E i \in StreetIds : InReach(i, j)
           THEN /\ Cardinality(RowsOfPoint(j)) = 1
                /\ \A r \in RowsOfPoint(j) :
                       \E i \in NearestStreets(j) : r \in RowsOfStreet(i)
           ELSE /\ call.how = "inner" => RowsOfPoint(j) = {}
                /\ call.how = "left"
                   => \E r \in 1..Len(ResultRows) :
                          /\ ResultRows[r].geometry = call.points_gdf.rows[j].geometry
                          /\ ResultRows[r].index_right = None

\* C5 amended: the join decides per line.  A line is matched to its nearest
\* point (to each of them when several are equally near) iff that distance,
\* in the join frame, does not exceed max_distance; inner keeps exactly the
\* matched lines, left keeps every line, the unmatched ones once with a null
\* match; every row of the result is a row of a line, in the output frame.
\* A line 5 from the only point matches with max_distance 10 and not with 1.
C5_JoinPerLine ==
    MergeDone
    => /\ out.value.spatial_gdf.crs = "EPSG:4326"
       /\ \A r \in 1..Len(ResultRows) : \E i \in StreetIds : r \in RowsOfStreet(i)
       /\ \A i \in StreetIds :
              IF \E j \in PointIds : InReach(i, j)
              THEN /\ {ResultRows[r].index_right : r \in RowsOfStreet(i)}
                        = {Some(j - 1) : j \in NearestPoints(i)}
                   /\ \A j \in NearestPoints(i) : InReach(i, j)
              ELSE /\ call.how = "inner" => RowsOfStreet(i) = {}
                   /\ call.how = "left"
                      => {ResultRows[r].index_right : r \in RowsOfStreet(i)} = {None}
       /\ (/\ call.points_gdf = PointsFrame(<<(<<1, 1>>)>>)
           /\ call.streets_gdf = StreetsFrame(<<(<<(<<0, 0>>), (<<2, 0>>)>>)>>)
           /\ call.how = "inner")
          => /\ JoinDist2(1, 1)[1] = 5 * 5 * JoinDist2(1, 1)[2]
             /\ call.max_distance = Some(10) => Len(ResultRows) = 1
             /\ call.max_distance = Some(1) => Len(ResultRows) = 0

\* C5 witness: two streets and one point within 10 of both; the inner join
\* returns both streets, each matched to that point.
C5_Witness ==
    /\ MergeDone
    /\ call.how = "inner"
    /\ call.max_distance = Some(10)
    /\ Len(call.points_gdf.rows) = 1
    /\ Len(call.streets_gdf.rows) = 2
    /\ call.streets_gdf.rows[1].geometry # call.streets_gdf.rows[2].geometry
    /\ Len(ResultRows) = 2
    /\ ResultRows[1].index_right = Some(0)
    /\ ResultRows[2].index_right = Some(0)

\* ====================================================== TripRequestAdapter
\* A Python value that may be of several types carries its type in kind.
NoneValue == [kind |-> "None"]
ListValue(items) == [kind |-> "list", items |-> items]
TupleValue(a, b) == [kind |-> "tuple", items |-> <<a, b>>]
Response(status_code, text) ==
    [kind |-> "Response", status_code |-> status_code, text |-> text]

\* An exception: its type and its message, the message as its fixed text
\* and the value formatted into it.
Error(type, text, detail) == [type |-> type, text |-> text, detail |-> detail]

\* The polyline format codes the first point and then each point's
\* difference from the one before (the characters that spell the numbers
\* are left out; a coordinate of the model is a whole number of the
\* format's steps, so its rounding changes nothing).
polyline_encode(points) ==
    [i \in 1..Len(points) |->
        IF i = 1 THEN points[1] ELSE Minus(points[i], points[i - 1])]

RECURSIVE polyline_decode(_)
polyline_decode(encoded) ==
    IF encoded = <<>> THEN <<>>
    ELSE LET before == polyline_decode(SubSeq(encoded, 1, Len(encoded) - 1))
             last == encoded[Len(encoded)]
         IN  IF before = <<>> THEN <<last>>
             ELSE Append(before, <<before[Len(before)][1] + last[1],
                                   before[Len(before)][2] + last[2]>>)

RECURSIVE Flatten(_)
Flatten(ss) == IF ss = <<>> THEN <<>> ELSE Head(ss) \o Flatten(Tail(ss))

\* The loops of get_osrm_trip over trips, legs and steps: the geometry of
\* every step in order, then the decoded ones of two points or more.
StepGeometries(trips) == Flatten(Flatten(trips))

\* The same with the decoded (lat, lon) pairs taken as they come.
decoded_routes_unswapped(trips) ==
    LET geoms == StepGeometries(trips)
        usable(g) == g # <<>> /\ Len(polyline_decode(g)) > 1
        kept == SelectSeq(geoms, usable)
    IN  [i \in 1..Len(kept) |-> LineString(polyline_decode(kept[i]))]

DecodedRoutes(trips) ==
    LET geoms == StepGeometries(trips)
        usable(g) == g # <<>> /\ Len(polyline_decode(g)) > 1
        kept == SelectSeq(geoms, usable)
    IN  [i \in 1..Len(kept) |-> LineString(SwapPairs(polyline_decode(kept[i])))]

\* The except clauses of get_osrm_trip.
on_exception(answer, base_url) ==
    CASE answer.exc \in {"MissingSchema", "InvalidURL"} ->
             Raised(Error("ValueError", "Invalid URL: ", base_url))
      [] answer.exc = "Timeout" ->
             Raised(Error("TimeoutError", "Request timed out: ", answer.detail))
      [] answer.exc = "HTTPError" ->
             Returned(answer.response)
      [] OTHER ->
             Raised(Error("ValueError", "Request failed: ", answer.detail))

\* get_osrm_trip with a non-200 answer reported as no route at all.
get_osrm_trip_none_on_failure(answer, base_url) ==
    IF answer.kind = "exception" THEN on_exception(answer, base_url)
    ELSE IF answer.status_code = 200 /\ DecodedRoutes(answer.json) # <<>>
         THEN Returned(ListValue(DecodedRoutes(answer.json)))
         ELSE Returned(NoneValue)

\* get_osrm_trip from the answer of requests.get on: the answer is a
\* response or the exception requests.get raised.
get_osrm_trip(answer, base_url) ==
    IF answer.kind = "exception" THEN on_exception(answer, base_url)
    ELSE IF answer.status_code = 200
         THEN IF DecodedRoutes(answer.json) # <<>>
              THEN Returned(ListValue(DecodedRoutes(answer.json)))
              ELSE Returned(NoneValue)
         ELSE Returned(Response(answer.status_code, answer.text))

\* ---- what the routing service may answer
RouteA == <<(<<0, 0>>), (<<2, 0>>)>>
RouteB == <<(<<0, 3>>), (<<1, 3>>), (<<2, 3>>)>>

\* The geometry of a step as the service sends it: (lat, lon), encoded.
StepOf(line) == polyline_encode(SwapPairs(line))

StepGeoms == {StepOf(RouteA), StepOf(RouteB), StepOf(<<(<<1, 1>>)>>)}

HttpResponse(status_code, text, json) ==
    [kind |-> "response", status_code |-> status_code, text |-> text, json |-> json]

Raises(exc, detail) == [kind |-> "exception", exc |-> exc, detail |-> detail]

\* The body of a 200 answer is its trips; a trip is its legs, a leg its
\* steps, a step its geometry (<<>> for a step without one).
\* Two trips, the first with a one-point step after its line; one trip of
\* two legs, the second starting with a one-point step and a step without
\* geometry.
TwoTrips ==
    << <<(<<StepOf(RouteB), StepOf(<<(<<1, 1>>)>>)>>)>>,
       <<(<<StepOf(RouteA)>>)>> >>

TwoLegs ==
    << << <<StepOf(RouteA)>>,
          <<StepOf(<<(<<1, 1>>)>>), <<>>, StepOf(RouteB)>> >> >>

\* One trip of one leg with the given steps; no trip; a step with no
\* geometry; several trips and legs.
OkAnswers ==
    {HttpResponse(200, "json", <<(<<steps>>)>>) : steps \in SeqsUpTo(StepGeoms, 0, MaxSteps)}
    \cup {HttpResponse(200, "json", <<>>),
          HttpResponse(200, "json", <<(<<(<<(<<>>)>>)>>)>>),
          HttpResponse(200, "json", TwoTrips),
          HttpResponse(200, "json", TwoLegs)}

FailedAnswers == {HttpResponse(500, "no route", <<>>), HttpResponse(400, "InvalidQuery", <<>>)}

TransportFailures ==
    {Raises("Timeout", "Read timed out."),
     Raises("ConnectionError", "Connection refused")}

GoodUrl == "https://router.project-osrm.org"
BadUrls == {"router.project-osrm.org", "http://"}

\* requests.get rejects a malformed URL before anything is sent.
AnswersTo(base_url) ==
    IF base_url = GoodUrl THEN OkAnswers \cup FailedAnswers \cup TransportFailures
    ELSE IF base_url = "http://" THEN {Raises("InvalidURL", "No host supplied")}
    ELSE {Raises("MissingSchema", "No scheme supplied")}

\* ======================================================== TripOrchestrator
\* No check of the frame at all.
validate_nothing(frame) == Returned(frame)

\* if gdf.empty: raise ValueError; assert gdf.crs is not None; the frame
\* goes on without its index columns.
validate(frame) ==
    IF frame.rows = <<>>
    THEN Raised(Error("ValueError", "The input GeoDataFrame is empty", ""))
    ELSE IF frame.crs = NoCrs
    THEN Raised(Error("AssertionError", "The input GeoDataFrame must have a valid CRS", ""))
    ELSE Returned(frame)

\* compute_polygon_buffer: the buffered convex hull of a frame that is not
\* empty is a polygon; only its failure on an empty frame shows here.
compute_polygon_buffer(frame) ==
    IF frame.rows = <<>>
    THEN Raised(Error("ValueError", "The input GeoDataFrame is empty", ""))
    ELSE Returned("Polygon")

\* point_list.insert(0, start) and point_list.append(end), as (lat, lon).
WithEnds(points, start_point, end_point) ==
    (IF start_point # None THEN <<(<<start_point[1][2], start_point[1][1]>>)>> ELSE <<>>)
    \o points
    \o (IF end_point # None THEN <<(<<end_point[1][2], end_point[1][1]>>)>> ELSE <<>>)

\* class TransportProfile, by display name.
TransportProfile ==
    [name \in {"Car", "Bike", "Foot"} |->
        CASE name = "Car" -> [osrm_profile |-> "driving", osm_network |-> "drive"]
          [] name = "Bike" -> [osrm_profile |-> "cycling", osm_network |-> "bike"]
          [] name = "Foot" -> [osrm_profile |-> "walking", osm_network |-> "walk"]]

\* The request get_osrm_trip builds from the encoded polyline, the profile
\* and str(roundtrip).lower().
TripRequest(points) ==
    [base_url |-> args[1].base_url,
     profile |-> args[1].profile.osrm_profile,
     polyline |-> polyline_encode(points),
     roundtrip |-> IF args[1].roundtrip THEN "true" ELSE "false"]

\* Lines 140-152: the ends are added, the list is encoded and the request
\* leaves for the routing service.
SendTripRequest(points) ==
    LET all == WithEnds(points, args[1].start_point, args[1].end_point)
    IN  /\ point_list' = all
        /\ request' = Some(TripRequest(all))
        /\ osrm_calls' = osrm_calls + 1
        /\ pc' = "osrm"

Fail(e) ==
    /\ ret' = e
    /\ pc' = "done"

\* calculate_trip from its entry to its first call of a collaborator: the
\* road network (optimize_points) or the routing service.
CalculateTrip ==
    /\ pc = "start"
    /\ LET checked == validate(args[1].gdf)
       IN  IF checked.status = "raised"
           THEN /\ Fail(checked)
                /\ UNCHANGED <<gdf, point_list, request, osrm_calls, osm_calls>>
           ELSE /\ gdf' = Some(checked.value)
                /\ IF args[1].optimize_points
                   THEN IF compute_polygon_buffer(checked.value).status = "raised"
                        THEN /\ Fail(compute_polygon_buffer(checked.value))
                             /\ UNCHANGED <<point_list, request, osrm_calls, osm_calls>>
                        ELSE /\ osm_calls' = osm_calls + 1
                             /\ pc' = "osm"
                             /\ UNCHANGED <<point_list, request, osrm_calls, ret>>
                   ELSE /\ SendTripRequest(
                               [i \in 1..Len(checked.value.rows) |->
                                   <<checked.value.rows[i].geometry.coords[1][2],
                                     checked.value.rows[i].geometry.coords[1][1]>>])
                        /\ UNCHANGED <<osm_calls, ret>>
    /\ UNCHANGED <<fnVars, uiVars, args, gdf_edges, reply, routes, messages>>

\* ---- what the road-network acquisition may answer
EdgeRow(i, line, highway, maxspeed) ==
    [idx |-> i, geometry |-> LineString(line), highway |-> highway,
     maxspeed |-> maxspeed, name |-> Str("Via Roma")]

EdgesFrame(rows) == [crs |-> "EPSG:4326", rows |-> rows]

NetworkAnswers ==
    { Returned(EdgesFrame(<<EdgeRow(0, RouteA, Str("residential"), Str(T50))>>)),
      Returned(EdgesFrame(<<EdgeRow(0, RouteA, List(<<"residential", "motorway">>),
                                    List(<<T30, T50>>)),
                            EdgeRow(1, RouteB, List(<<"service", "footway">>), NaN)>>)),
      Returned(EdgesFrame(<<EdgeRow(0, RouteA, Str("residential"), Str(Tnone))>>)),
      Raised(Error("ValueError", "Found no graph nodes within the requested polygon", "")) }

\* gdf_streets[gdf_streets['highway'].isin(streets)], when streets is not empty.
OfStreets(rows, streets) ==
    IF streets = <<>> THEN rows
    ELSE SelectSeq(rows, LAMBDA r :
             /\ r.highway.kind = "str"
             /\ \E i \in 1..Len(streets) : streets[i] = Text(r.highway))

\* Lines 124-152, from the answer of get_gdfs_from_polygon on: the edges
\* are filtered and joined to the waypoints (which reprojects the local
\* frame and the edges in place), the road classes are selected, the lines are turned
\* into points and the trip request leaves.
NetworkReturns ==
    /\ pc = "osm"
    /\ \E net \in NetworkAnswers :
          IF net.status = "raised"
          THEN /\ Fail(net)
               /\ UNCHANGED <<gdf, gdf_edges, point_list, request, osrm_calls>>
          ELSE LET edges == filter_data(net.value.rows)
               IN  IF edges.status = "raised"
                   THEN /\ Fail(Raised(Error("ValueError", "pd.to_numeric", "")))
                        /\ gdf_edges' = Some(net.value)
                        /\ UNCHANGED <<gdf, point_list, request, osrm_calls>>
                   ELSE IF gdf[1].crs = NoCrs
                   THEN /\ Fail(Raised(Error("ValueError", "Cannot transform naive geometries", "")))
                        /\ gdf_edges' = Some([net.value EXCEPT !.rows = edges.value])
                        /\ UNCHANGED <<gdf, point_list, request, osrm_calls>>
                   ELSE LET merged == merge_points_gdf_with_streets_edges(
                                          gdf[1], [net.value EXCEPT !.rows = edges.value],
                                          "inner", Some(10))
                            gdf_streets == OfStreets(merged.spatial_gdf.rows, args[1].streets)
                            points == convert_gdf_to_single_point_list(gdf_streets, Some(-1))
                        IN  /\ gdf' = Some(merged.points_gdf)
                            /\ gdf_edges' = Some(merged.streets_gdf)
                            /\ SendTripRequest(points.value)
                            /\ UNCHANGED ret
    /\ UNCHANGED <<fnVars, uiVars, args, reply, routes, messages, osm_calls>>

\* Lines 164-178: the routes become a frame, the waypoints are joined to
\* their nearest route in EPSG:3857 and those with no route within
\* max_distance are the uncovered points, returned in EPSG:4326.
RoutesFrame(lines) ==
    [crs |-> "EPSG:4326",
     rows |-> [i \in 1..Len(lines) |-> [idx |-> i - 1, geometry |-> lines[i]]]]

reset_index(frame) ==
    [frame EXCEPT !.rows =
        [i \in 1..Len(frame.rows) |-> [index |-> frame.rows[i].idx] @@ frame.rows[i]]]

\* The join made in the frame the waypoints arrive in, with no reprojection.
uncovered_in_place(frame, routes_gdf, max_distance) ==
    LET covered_points == sjoin_nearest(frame, [routes_gdf EXCEPT !.crs = frame.crs],
                                        "left", max_distance)
    IN  [covered_points EXCEPT
            !.rows = SelectSeq(covered_points.rows, LAMBDA r : r.index_right = None)]

uncovered_of(frame, routes_gdf, max_distance) ==
    LET covered_points == sjoin_nearest(to_crs(frame, "EPSG:3857"),
                                        to_crs(routes_gdf, "EPSG:3857"),
                                        "left", max_distance)
    IN  [covered_points EXCEPT
            !.rows = SelectSeq(covered_points.rows, LAMBDA r : r.index_right = None)]

Message(level, text, values) == [level |-> level, text |-> text, values |-> values]

\* calculate_trip from the answer of the routing service on (get_osrm_trip
\* from line 62, then lines 154-178).
OsrmReplies ==
    /\ pc = "osrm"
    /\ \E answer \in AnswersTo(args[1].base_url) :
          LET got == get_osrm_trip(answer, args[1].base_url)
          IN  /\ reply' = Some(answer)
              /\ routes' = got
              /\ pc' = "done"
              /\ IF got.status = "raised"
                 THEN /\ ret' = got
                      /\ UNCHANGED messages
                 ELSE IF got.value.kind = "Response"
                 THEN /\ messages' = Append(messages,
                              Message("error", "OSRM API error: ",
                                      <<got.value.status_code, got.value.text>>))
                      /\ ret' = Returned(NoneValue)
                 ELSE IF got.value.kind = "None"
                 THEN /\ messages' = Append(messages,
                              Message("warning", "No valid routes found", <<>>))
                      /\ ret' = Returned(NoneValue)
                 ELSE IF gdf[1].crs = NoCrs
                 THEN /\ ret' = Raised(Error("ValueError", "Cannot transform naive geometries", ""))
                      /\ UNCHANGED messages
                 ELSE LET routes_gdf == RoutesFrame(got.value.items)
                          uncovered_points ==
                              uncovered_of(gdf[1], routes_gdf, args[1].max_distance)
                      IN  IF uncovered_points.rows # <<>>
                          THEN /\ messages' = Append(messages,
                                       Message("warning", "points were not covered",
                                               <<Len(uncovered_points.rows)>>))
                               /\ ret' = Returned(TupleValue(reset_index(routes_gdf),
                                             to_crs(uncovered_points, "EPSG:4326")))
                          ELSE /\ messages' = Append(messages,
                                       Message("success", "All points were covered", <<>>))
                               /\ ret' = Returned(TupleValue(reset_index(routes_gdf),
                                                             NoneValue))
    /\ UNCHANGED <<fnVars, uiVars, args, gdf, gdf_edges, point_list, request,
                   osrm_calls, osm_calls>>

\* The routing service never answers.  requests.get(osrm_url) is called
\* without a timeout (line 61), so requests waits for the answer with no
\* limit: the call stays blocked and no step of get_osrm_trip follows.
Silence == [kind |-> "silence"]

ServiceSilent ==
    /\ pc = "osrm"
    /\ reply' = Some(Silence)
    /\ pc' = "blocked"
    /\ UNCHANGED <<fnVars, uiVars, args, gdf, gdf_edges, point_list, request, routes,
                   ret, messages, osrm_calls, osm_calls>>

\* ---- the calls of calculate_trip
TripGrid == {<<1, 0>>, <<1, 1>>, <<1, 3>>}

TripFrames ==
    {[PointsFrame(ps) EXCEPT !.crs = c] :
        ps \in SeqsUpTo(TripGrid, 0, MaxPts), c \in {"EPSG:4326", NoCrs}}

TripCalls ==
    {a \in [gdf : TripFrames,
            profile : {TransportProfile["Car"]},
            roundtrip : {FALSE},
            base_url : {GoodUrl} \cup BadUrls,
            streets : {<<>>, highway_priority, <<"motorway">>},
            optimize_points : BOOLEAN,
            start_point : {None, Some(<<1, 0>>)},
            end_point : {None, Some(<<1, 3>>)},
            max_distance : Thresholds] :
        ~a.optimize_points => a.streets = highway_priority}

Init ==
    /\ NoCall
    /\ NoSession
    /\ pc = "start"
    /\ args \in {Some(a) : a \in TripCalls}
    /\ gdf = None
    /\ gdf_edges = None
    /\ point_list = <<>>
    /\ request = None
    /\ reply = None
    /\ routes = Pending
    /\ ret = Pending
    /\ messages = <<>>
    /\ osrm_calls = 0
    /\ osm_calls = 0

Next == CalculateTrip \/ NetworkReturns \/ OsrmReplies \/ ServiceSilent

Spec == Init /\ [][Next]_vars

\* The call is synchronous and single-threaded: calculate_trip, once
\* called, runs to its first call of a collaborator, and the request to the
\* routing service is answered unless the service stays silent.  Nothing
\* obliges either service to answer.
SpecLive ==
    /\ Init
    /\ [][Next]_vars
    /\ WF_vars(CalculateTrip)
    /\ WF_vars(OsrmReplies)

\* ============================================================ the app session
\* src/streamlit_app.py.  Every interaction with a widget reruns the whole
\* script with the widgets' new values; st.session_state lives across the
\* reruns.  widgets holds the four routing selections, session the entries
\* of st.session_state (the coverage checkbox and slider are keyed widgets
\* and so are entries of it).  A rerun that calls calculate_trip stands at
\* the call until it returns; the record of the call (args, request, ret)
\* is kept for as long as its result is cached.
Distances == {1, 10}

\* The uploaded points, all of them in use.
UploadedPoints == PointsFrame(<<(<<1, 1>>), (<<1, 3>>)>>)

WidgetChoices ==
    [transport_mode : {"Car", "Bike"},
     osmr_url : {GoodUrl, "http://"},
     optimize_points : BOOLEAN,
     roundtrip : BOOLEAN]

DefaultWidgets ==
    [transport_mode |-> "Car", osmr_url |-> GoodUrl,
     optimize_points |-> FALSE, roundtrip |-> FALSE]

\* reset_trip_calculation
reset_trip_calculation(s) ==
    [s EXCEPT !.trip_calculated = FALSE,
              !.trip_gdf = NoneValue,
              !.uncovered_points = NoneValue]

\* The check of the parameters with the service URL left out.
parameters_changed_but_url(w, s) ==
    \/ Some(w.transport_mode) # s.previous_transport_mode
    \/ Some(w.optimize_points) # s.previous_optimize_points
    \/ Some(w.roundtrip) # s.previous_roundtrip

\* Lines 231-234: has any of the key parameters changed.
parameters_changed(w, s) ==
    \/ Some(w.transport_mode) # s.previous_transport_mode
    \/ Some(w.optimize_points) # s.previous_optimize_points
    \/ Some(w.roundtrip) # s.previous_roundtrip
    \/ Some(w.osmr_url) # s.previous_osmr_url

\* Lines 230-241: the cache is reset on a change and the selections are
\* remembered.
detect_changes(w, s) ==
    [(IF parameters_changed(w, s) THEN reset_trip_calculation(s) ELSE s)
        EXCEPT !.previous_transport_mode = Some(w.transport_mode),
               !.previous_optimize_points = Some(w.optimize_points),
               !.previous_roundtrip = Some(w.roundtrip),
               !.previous_osmr_url = Some(w.osmr_url)]

\* utils.recalculate_uncovered_points(trip_gdf, filtered_points,
\* max_distance): the coverage verification run again on the stored route
\* and points.  The points with no route within max_distance, in the
\* geographic frame; its arguments are left as they are.
recalculate_uncovered_points(trip_gdf, filtered_points, max_distance) ==
    to_crs(uncovered_of(filtered_points, trip_gdf, Some(max_distance)), "EPSG:4326")

\* The callback with the stored route and points handed over the wrong
\* way round.
update_uncovered_swapped(s) ==
    IF s.trip_calculated /\ s.verify_coverage
    THEN [s EXCEPT !.uncovered_points =
              recalculate_uncovered_points(s.filtered_points, s.trip_gdf, s.max_distance)]
    ELSE s

\* update_uncovered_points, the callback of the max_distance slider.
update_uncovered_points(s) ==
    IF s.trip_calculated /\ s.verify_coverage
    THEN [s EXCEPT !.uncovered_points =
              recalculate_uncovered_points(s.trip_gdf, s.filtered_points, s.max_distance)]
    ELSE s

\* The call of calculate_trip at lines 297-307.
StartTrip(w, s) ==
    /\ pc' = "start"
    /\ args' = Some([gdf |-> UploadedPoints,
                     profile |-> TransportProfile[w.transport_mode],
                     roundtrip |-> w.roundtrip,
                     base_url |-> w.osmr_url,
                     streets |-> highway_priority,
                     optimize_points |-> w.optimize_points,
                     start_point |-> None,
                     end_point |-> None,
                     max_distance |-> IF s.verify_coverage THEN Some(s.max_distance)
                                      ELSE None])
    /\ gdf' = None
    /\ gdf_edges' = None
    /\ point_list' = <<>>
    /\ request' = None
    /\ reply' = None
    /\ routes' = Pending
    /\ ret' = Pending
    /\ messages' = <<>>
    /\ osrm_calls' = 0
    /\ osm_calls' = 0

\* No call of calculate_trip is on record.
ClearTrip ==
    /\ pc' = "idle"
    /\ args' = None
    /\ gdf' = None
    /\ gdf_edges' = None
    /\ point_list' = <<>>
    /\ request' = None
    /\ reply' = None
    /\ routes' = Pending
    /\ ret' = Pending
    /\ messages' = <<>>
    /\ osrm_calls' = 0
    /\ osm_calls' = 0

\* One run of the script from line 230 to its end or to the call of
\* calculate_trip, with the widgets at w, st.session_state at s and the
\* start button pressed or not.
Script(w, s, button) ==
    LET checked == detect_changes(w, s)
    IN  IF button /\ ~checked.trip_calculated
        THEN /\ session' = [checked EXCEPT !.filtered_points = UploadedPoints]
             /\ StartTrip(w, checked)
        ELSE /\ session' = checked
             /\ IF checked.trip_calculated THEN UNCHANGED tripVars ELSE ClearTrip

\* A routing selection is changed.
SelectParameter ==
    /\ pc = "idle"
    /\ \E w \in WidgetChoices :
          /\ w # widgets
          /\ widgets' = w
          /\ Script(w, session, FALSE)
    /\ UNCHANGED fnVars

\* The 'Verify point coverage' checkbox is ticked or cleared.
ToggleVerifyCoverage ==
    /\ pc = "idle"
    /\ Script(widgets, [session EXCEPT !.verify_coverage = ~@], FALSE)
    /\ UNCHANGED <<fnVars, widgets>>

\* The max_distance slider, shown with the checkbox ticked, is moved: its
\* callback runs and then the script.
SlideMaxDistance ==
    /\ pc = "idle"
    /\ session.verify_coverage
    /\ \E d \in Distances \ {session.max_distance} :
          Script(widgets,
                 update_uncovered_points([session EXCEPT !.max_distance = d]),
                 FALSE)
    /\ UNCHANGED <<fnVars, widgets>>

\* 'Start Trip Calculation' is pressed.
ClickStart ==
    /\ pc = "idle"
    /\ Script(widgets, session, TRUE)
    /\ UNCHANGED <<fnVars, widgets>>

\* calculate_trip has ended, lines 297-308: a returned pair is unpacked into
\* the session and the trip counts as calculated; a returned None cannot be
\* unpacked and an exception passes through, and either ends the run with
\* the session as it was.
TripReturns ==
    /\ pc = "done"
    /\ IF ret.status = "returned" /\ ret.value.kind = "tuple"
       THEN /\ session' = [session EXCEPT !.trip_gdf = ret.value.items[1],
                                          !.uncovered_points = ret.value.items[2],
                                          !.trip_calculated = TRUE]
            /\ pc' = "idle"
            /\ gdf' = None
            /\ gdf_edges' = None
            /\ point_list' = <<>>
            /\ reply' = None
            /\ routes' = Pending
            /\ messages' = <<>>
            /\ UNCHANGED <<args, request, ret, osrm_calls, osm_calls>>
       ELSE /\ ClearTrip
            /\ UNCHANGED session
    /\ UNCHANGED <<fnVars, widgets>>

\* Lines 110-129 and the first run of the script, the widgets at their
\* defaults.
InitSession ==
    /\ NoCall
    /\ NoTrip
    /\ widgets = DefaultWidgets
    /\ session = [trip_calculated |-> FALSE,
                  trip_gdf |-> NoneValue,
                  uncovered_points |-> NoneValue,
                  filtered_points |-> NoneValue,
                  verify_coverage |-> TRUE,
                  max_distance |-> 10,
                  previous_transport_mode |-> Some("Car"),
                  previous_optimize_points |-> Some(FALSE),
                  previous_roundtrip |-> Some(FALSE),
                  previous_osmr_url |-> Some(GoodUrl)]

NextSession ==
    \/ SelectParameter
    \/ ToggleVerifyCoverage
    \/ SlideMaxDistance
    \/ ClickStart
    \/ CalculateTrip
    \/ NetworkReturns
    \/ OsrmReplies
    \/ ServiceSilent
    \/ TripReturns

SpecSession == InitSession /\ [][NextSession]_vars

\* ------------------------------------------ properties of the orchestrator
Done == pc = "done"

\* The routing service answered with a status other than 200.
ServiceFailed ==
    /\ reply # None
    /\ reply[1].kind = "response"
    /\ reply[1].status_code # 200

\* requests.get raised: a malformed URL, a timeout, another transport error.
TransportFailed ==
    /\ reply # None
    /\ reply[1].kind = "exception"

\* The routing service answered 200 with no usable segment.
NoRouteFound ==
    /\ reply # None
    /\ reply[1].kind = "response"
    /\ reply[1].status_code = 200
    /\ DecodedRoutes(reply[1].json) = <<>>

\* C1: on every unrecoverable failure (empty waypoints, a failure of the
\* routing service or of the transport, an answer with no usable route)
\* calculate_trip returns the pair (None, None): it neither raises nor
\* returns anything that is not a pair.
C1_FailureGivesNonePair ==
    (Done /\ (args[1].gdf.rows = <<>> \/ ServiceFailed \/ TransportFailed \/ NoRouteFound))
    => ret = Returned(TupleValue(NoneValue, NoneValue))

C3_NoCallOnInvalidInput ==
    (args[1].gdf.rows = <<>> \/ args[1].gdf.crs = NoCrs)
    => /\ osrm_calls = 0
       /\ osm_calls = 0
       /\ request = None
       /\ pc \in {"start", "done"}
       /\ Done => /\ ret.status = "raised"
                  /\ ret.error.type \in {"ValueError", "AssertionError"}

\* C3 witness: an empty frame with optimize_points and both ends given has
\* been refused, and nothing was called.
C3_Witness ==
    /\ Done
    /\ args[1].gdf.rows = <<>>
    /\ args[1].optimize_points
    /\ args[1].start_point # None
    /\ args[1].end_point # None
    /\ ret.status = "raised"
    /\ osrm_calls = 0
    /\ osm_calls = 0

\* Waypoint i of the call has no route within max_distance, both taken to
\* EPSG:3857, the frame the coverage join is made in.
FarFromRoute(i) ==
    \A l \in 1..Len(routes.value.items) :
        ~WithinMax(Dist2(ScaleGeom(args[1].gdf.rows[i].geometry, "EPSG:3857", "EPSG:4326"),
                         ScaleGeom(routes.value.items[l], "EPSG:3857", "EPSG:4326")),
                   args[1].max_distance)

Uncovered == {i \in 1..Len(args[1].gdf.rows) : FarFromRoute(i)}

\* C4: after a successful trip request with max_distance set, the uncovered
\* points calculate_trip returns are exactly the waypoints of the call with
\* no route within max_distance, each once, in the waypoints' order and
\* with their own coordinates; when there is none, None is returned.
C4_UncoveredExactly ==
    (/\ Done
     /\ ret.status = "returned"
     /\ ret.value.kind = "tuple"
     /\ args[1].max_distance # None)
    => LET got == ret.value.items[2]
           want == Ascending(Uncovered)
       IN  IF want = <<>> THEN got = NoneValue
           ELSE /\ got # NoneValue
                /\ got.crs = "EPSG:4326"
                /\ Len(got.rows) = Len(want)
                /\ \A k \in 1..Len(want) :
                       /\ got.rows[k].idx = args[1].gdf.rows[want[k]].idx
                       /\ got.rows[k].geometry = args[1].gdf.rows[want[k]].geometry
                       /\ got.rows[k].index_right = None

\* C4 witness: of two waypoints one is within 10 of the route and the other
\* is not; the second alone is returned as uncovered.
C4_Witness ==
    /\ Done
    /\ ret.status = "returned"
    /\ ret.value.kind = "tuple"
    /\ args[1].max_distance = Some(10)
    /\ Len(args[1].gdf.rows) = 2
    /\ Uncovered = {2}
    /\ ret.value.items[2] # NoneValue
    /\ Len(ret.value.items[2].rows) = 1

\* The routing service answered 200.
ServiceAnswered ==
    /\ reply # None
    /\ reply[1].kind = "response"
    /\ reply[1].status_code = 200

\* The places <<trip, leg, step>> of the steps of a body, and the places in
\* the order trips, then legs, then steps.
StepPlaces(json) ==
    UNION {UNION {{<<t, l, s>> : s \in 1..Len(json[t][l])}
                  : l \in 1..Len(json[t])}
           : t \in 1..Len(json)}

PlaceBefore(p, q) ==
    \/ p[1] < q[1]
    \/ p[1] = q[1] /\ p[2] < q[2]
    \/ p[1] = q[1] /\ p[2] = q[2] /\ p[3] <= q[3]

RECURSIVE PlacesInOrder(_)
PlacesInOrder(S) ==
    IF S = {} THEN <<>>
    ELSE LET p == CHOOSE p \in S : \A q \in S : PlaceBefore(p, q)
         IN  <<p>> \o PlacesInOrder(S \ {p})

\* The steps whose geometry codes two points or more, in that order.
UsablePlaces(json) ==
    PlacesInOrder({p \in StepPlaces(json) : Len(json[p[1]][p[2]][p[3]]) >= 2})

\* C11: on a 200 answer get_osrm_trip returns one segment for each step
\* geometry of two points or more, in the order trips, legs, steps, each a
\* line whose (lon, lat) coordinates, swapped back to (lat, lon) and
\* encoded, are the step's geometry; steps of fewer than two points and
\* steps without geometry are left out; with no usable step it returns
\* None and never an empty list.
C11_SegmentsInStepOrder ==
    (Done /\ ServiceAnswered)
    => LET json == reply[1].json
           want == UsablePlaces(json)
       IN  /\ routes.status = "returned"
           /\ routes.value # ListValue(<<>>)
           /\ IF want = <<>> THEN routes.value = NoneValue
              ELSE /\ routes.value.kind = "list"
                   /\ Len(routes.value.items) = Len(want)
                   /\ \A n \in 1..Len(want) :
                          /\ routes.value.items[n].type = "LineString"
                          /\ polyline_encode(SwapPairs(routes.value.items[n].coords))
                                = json[want[n][1]][want[n][2]][want[n][3]]

\* C11 witness: two trips, the first with a line of three points and a
\* one-point step, the second with a line of two; the two lines come back
\* in that order, as (lon, lat).
C11_Witness ==
    /\ Done
    /\ reply = Some(HttpResponse(200, "json", TwoTrips))
    /\ routes = Returned(ListValue(<<LineString(RouteB), LineString(RouteA)>>))

\* The class of a transport failure, and the error each class is to give.
MalformedUrl == reply[1].exc \in {"MissingSchema", "InvalidURL"}
TimedOut == reply[1].exc = "Timeout"

\* C12: a malformed service URL gives a configuration error, no response
\* within the timeout a timeout error, any other transport failure a generic
\* request error, the three told apart by type or fixed text; and in each
\* case the message of the raised error contains the detail of the
\* underlying transport failure.
C12_TransportErrorsKeepDetail ==
    (Done /\ TransportFailed)
    => /\ routes.status = "raised"
       /\ ret = routes
       /\ IF MalformedUrl
          THEN routes.error.type = "ValueError" /\ routes.error.text = "Invalid URL: "
          ELSE IF TimedOut
          THEN routes.error.type = "TimeoutError"
          ELSE routes.error.type = "ValueError" /\ routes.error.text = "Request failed: "
       /\ routes.error.detail = reply[1].detail

\* C13: the call of the routing service has a bounded timeout.  When the
\* service never answers, get_osrm_trip, and with it calculate_trip,
\* eventually ends with a timeout error instead of blocking forever; and
\* the request is sent once, never again.
C13_BlockedCallTimesOut ==
    /\ [](osrm_calls <= 1)
    /\ (pc = "blocked")
         ~> (Done /\ ret.status = "raised" /\ ret.error.type = "TimeoutError")

\* ---- the waypoint reduction of calculate_trip (optimize_points)
\* The reduction has run: the edges were filtered and joined and the trip
\* request has left.
Reduced ==
    /\ args[1].optimize_points
    /\ gdf_edges # None
    /\ request # None

EdgeIds == 1..Len(gdf_edges[1].rows)
WaypointIds == 1..Len(args[1].gdf.rows)

\* The squared distance of edge i and waypoint j in the join frame.
EdgeDist2(i, j) ==
    Dist2(gdf_edges[1].rows[i].geometry,
          ScaleGeom(args[1].gdf.rows[j].geometry, "EPSG:32632", "EPSG:4326"))

ClosestToSomeWaypoint(i) ==
    \E j \in WaypointIds : \A o \in EdgeIds : RatLeq(EdgeDist2(i, j), EdgeDist2(o, j))

NearestWaypoints(i) ==
    {j \in WaypointIds : \A o \in WaypointIds : RatLeq(EdgeDist2(i, j), EdgeDist2(i, o))}

WithinTen(i) ==
    \E j \in WaypointIds : EdgeDist2(i, j)[1] <= 10 * 10 * EdgeDist2(i, j)[2]

ClassAllowed(i) ==
    \/ args[1].streets = <<>>
    \/ /\ gdf_edges[1].rows[i].highway.kind = "str"
       /\ \E k \in 1..Len(args[1].streets) :
              args[1].streets[k] = Text(gdf_edges[1].rows[i].highway)

\* The points of edge i as they enter the point list: (lat, lon), EPSG:4326.
EdgePoints(i) ==
    SwapPairs(ScaleGeom(gdf_edges[1].rows[i].geometry, "EPSG:4326", "EPSG:32632").coords)

\* The point list without the start and end points of the call.
ReducedPoints ==
    SubSeq(point_list,
           IF args[1].start_point # None THEN 2 ELSE 1,
           IF args[1].end_point # None THEN Len(point_list) - 1 ELSE Len(point_list))

\* Edge i is among the matched segments: its points are in the point list.
Matched(i) ==
    \E k \in 0..(Len(ReducedPoints) - Len(EdgePoints(i))) :
        SubSeq(ReducedPoints, k + 1, k + Len(EdgePoints(i))) = EdgePoints(i)

RECURSIVE Times(_, _)
Times(n, seq) == IF n = 0 THEN <<>> ELSE seq \o Times(n - 1, seq)

\* The points of the edges from i on that have a waypoint within 10 and an
\* allowed class, each edge once for every waypoint equally nearest to it.
RECURSIVE PointsOfEdgesWithinTen(_)
PointsOfEdgesWithinTen(i) ==
    IF i > Len(gdf_edges[1].rows) THEN <<>>
    ELSE (IF WithinTen(i) /\ ClassAllowed(i)
          THEN Times(Cardinality(NearestWaypoints(i)), EdgePoints(i))
          ELSE <<>>)
         \o PointsOfEdgesWithinTen(i + 1)

\* C14 as stated: the join of the waypoint reduction has no distance cap.
\* Every waypoint is mapped to its closest road segment however far it is,
\* so the matched segments (of an allowed class) are exactly the segments
\* nearest to at least one waypoint.
C14_NoDistanceCap ==
    Reduced
    => \A i \in EdgeIds : Matched(i) <=> (ClosestToSomeWaypoint(i) /\ ClassAllowed(i))

\* C14 amended: the join of the waypoint reduction is capped at the default
\* max_distance of 10 in the join frame.  The matched segments (of an
\* allowed class) are exactly the segments with a waypoint within 10,
\* whether or not they are the closest segment of any waypoint, and the
\* point list holds their points in the segments' order, a segment once for
\* every waypoint equally nearest to it.
C14_JoinCappedAtTen ==
    Reduced
    => /\ \A i \in EdgeIds : Matched(i) <=> (WithinTen(i) /\ ClassAllowed(i))
       /\ ReducedPoints = PointsOfEdgesWithinTen(1)

\* C14 witness: one waypoint, 5 from one segment and 10 from another; both
\* segments are matched, the second without being the closest segment of
\* any waypoint.
C14_Witness ==
    /\ Reduced
    /\ args[1].streets = <<>>
    /\ Len(args[1].gdf.rows) = 1
    /\ Len(gdf_edges[1].rows) = 2
    /\ EdgeDist2(1, 1)[1] = 5 * 5 * EdgeDist2(1, 1)[2]
    /\ EdgeDist2(2, 1)[1] = 10 * 10 * EdgeDist2(2, 1)[2]
    /\ Matched(1)
    /\ Matched(2)
    /\ ~ClosestToSomeWaypoint(2)

\* The join of the waypoint reduction has run (it leaves the edges in the
\* join frame) and no segment survived it and the road-class filter.
NoSegmentSurvives ==
    /\ args[1].optimize_points
    /\ gdf_edges # None
    /\ gdf_edges[1].crs = "EPSG:32632"
    /\ \A i \in EdgeIds : ~(WithinTen(i) /\ ClassAllowed(i))

\* C15: when no road segment survives the join and the road-class filter,
\* calculate_trip ends in a failure of its own: no trip request is made for
\* the empty sequence, nor for the start and end points alone, and the call
\* does not end as a success or as a failure of the routing service.
C15_NoRequestWithoutWaypoints ==
    NoSegmentSurvives
    => /\ request = None
       /\ osrm_calls = 0
       /\ reply = None
       /\ pc = "done"
       /\ ret.status = "raised" \/ ret = Returned(NoneValue)

\* C17: the nearest join has no effect on its arguments.  After
\* merge_points_gdf_with_streets_edges returns, the caller's points and
\* streets frames have the coordinates and the coordinate frame they had
\* before the call; only the returned result is reprojected.
C17_MergeLeavesArguments ==
    MergeDone
    => /\ out.value.points_gdf = call.points_gdf
       /\ out.value.streets_gdf = call.streets_gdf
       /\ out.value.spatial_gdf.crs = "EPSG:4326"

\* ---- the positions of simplify_linestring, for k > 0
SimplifiedWithK ==
    /\ SimplifyDone
    /\ call.points_between # None
    /\ call.points_between[1] > 0

\* Position i of k + 2 evenly spaced ones from 0 to the last index is
\* (i - 1) * last / (k + 1); m is below it, or nearest to it, when:
LastIndex == Len(call.coords) - 1
Gaps == call.points_between[1] + 1

IndexBelow(i) ==
    CHOOSE m \in 0..LastIndex :
        /\ m * Gaps <= (i - 1) * LastIndex
        /\ (m + 1) * Gaps > (i - 1) * LastIndex

Off(m, i) ==
    IF m * Gaps >= (i - 1) * LastIndex
    THEN m * Gaps - (i - 1) * LastIndex
    ELSE (i - 1) * LastIndex - m * Gaps

IndicesNearest(i) ==
    {m \in 0..LastIndex : \A o \in 0..LastIndex : Off(m, i) <= Off(o, i)}

\* C18 as stated: for k > 0 the points are those at the k + 2 evenly spaced
\* positions from 0 to the last index, each position rounded to the nearest
\* original index (either neighbour when the position is half-way).
C18_IndicesRounded ==
    SimplifiedWithK
    => /\ out.status = "returned"
       /\ Len(out.value) = call.points_between[1] + 2
       /\ \A i \in 1..Len(out.value) :
              \E m \in IndicesNearest(i) : out.value[i] = call.coords[m + 1]

\* C18 amended: for k > 0 the points are those at the k + 2 evenly spaced
\* positions from 0 to the last index, each position cut down to the
\* original index below it (a 4-point polyline with k = 1 has positions
\* 0, 1.5, 3 and the points at indices 0, 1, 3).
C18_IndicesTruncated ==
    SimplifiedWithK
    => /\ out.status = "returned"
       /\ Len(out.value) = call.points_between[1] + 2
       /\ \A i \in 1..Len(out.value) : out.value[i] = call.coords[IndexBelow(i) + 1]

\* C18 witness: four points, the second and third different, and k = 1:
\* the first, second and fourth come back.
C18_Witness ==
    /\ SimplifiedWithK
    /\ call.points_between = Some(1)
    /\ Len(call.coords) = 4
    /\ call.coords[2] # call.coords[3]
    /\ out = Returned(<<call.coords[1], call.coords[2], call.coords[4]>>)

\* ------------------------------------------------ properties of the session
\* The rows of a frame of points as <<index label, geometry>>; None has none.
RowsOf(frame) ==
    IF frame = NoneValue THEN <<>>
    ELSE [k \in 1..Len(frame.rows) |-> <<frame.rows[k].idx, frame.rows[k].geometry>>]

\* Stored point i has no stored route within the session's max_distance,
\* both taken to EPSG:3857.
FarFromStored(s, i) ==
    \A l \in 1..Len(s.trip_gdf.rows) :
        ~WithinMax(Dist2(ScaleGeom(s.filtered_points.rows[i].geometry,
                                   "EPSG:3857", "EPSG:4326"),
                         ScaleGeom(s.trip_gdf.rows[l].geometry,
                                   "EPSG:3857", "EPSG:4326")),
                   Some(s.max_distance))

StoredUncovered(s) ==
    LET far == Ascending({i \in 1..Len(s.filtered_points.rows) : FarFromStored(s, i)})
    IN  [k \in 1..Len(far) |->
            <<s.filtered_points.rows[far[k]].idx, s.filtered_points.rows[far[k]].geometry>>]

C19_CacheMatchesSelection ==
    /\ [](session.trip_calculated
          => /\ pc = "idle"
             /\ session.trip_gdf # NoneValue
             /\ ret.status = "returned"
             /\ ret.value.kind = "tuple"
             /\ ret.value.items[1] = session.trip_gdf
             /\ request # None
             /\ request[1].base_url = widgets.osmr_url
             /\ request[1].profile = TransportProfile[widgets.transport_mode].osrm_profile
             /\ request[1].roundtrip = (IF widgets.roundtrip THEN "true" ELSE "false")
             /\ args[1].optimize_points = widgets.optimize_points)
    /\ [][(widgets' # widgets)
          => /\ ~session'.trip_calculated
             /\ session'.trip_gdf = NoneValue
             /\ session'.uncovered_points = NoneValue]_vars
    /\ [][(~session.trip_calculated /\ session'.trip_calculated)
          => /\ pc = "done"
             /\ ret.status = "returned"
             /\ ret.value.kind = "tuple"
             /\ session'.trip_gdf = ret.value.items[1]]_vars

\* C19 witness: a trip is cached that was calculated for the bike, as a
\* round trip, with the waypoint reduction, after the selections had been
\* changed from their defaults.
C19_Witness ==
    /\ session.trip_calculated
    /\ widgets.transport_mode = "Bike"
    /\ widgets.roundtrip
    /\ widgets.optimize_points
    /\ request[1].profile = "cycling"
    /\ request[1].roundtrip = "true"
    /\ session.trip_gdf # NoneValue

====
